---- MODULE Spec2Model ----
(***************************************************************************)
(* State-machine model of packages/ai/scripts/cursor-log.py: the record    *)
(* classifier (get_delta_type, is_noise), the line formatter               *)
(* (format_data, format_entry), the coalescing reducer (coalesce_entries   *)
(* with its closure flush_text) and the batch source (parse_entries).      *)
(*                                                                         *)
(* Encoding of Python values.                                              *)
(*   - str is a TLA+ string; Len, SubSeq and \o act on it as len, slicing  *)
(*     and + do.                                                           *)
(*   - a JSON object (dict) is a function from its keys to its values, and *)
(*     d.get(k, default) is Get(d, k, default).                            *)
(*   - a value that is not a dict where the code tests isinstance(_, dict) *)
(*     is the tagged record [nondict |-> v]; None in such a place is       *)
(*     NoneData.                                                           *)
(*   - None where a str is expected is the sentinel string None, and the   *)
(*     truth test "if s:" is Truthy(s).                                    *)
(***************************************************************************)
EXTENDS Integers, Sequences, FiniteSets, TLC

VARIABLES
    entries,        \* coalesce_entries: the parameter entries
    verbose,        \* coalesce_entries / is_noise: the parameter verbose
    idx,            \* coalesce_entries: position of the for loop (next entry)
    output,         \* coalesce_entries: the list output
    text_buffer,    \* coalesce_entries: the nonlocal text_buffer
    text_ts,        \* coalesce_entries: the nonlocal text_ts
    pc,             \* coalesce_entries: "loop" inside the for loop, "done" after return
    flushes,        \* history: the text buffers flush_text made a line of, in order
    file_text,      \* parse_entries: what path.read_text() returns
    last,           \* parse_entries: the parameter last
    lines,          \* parse_entries: the list lines
    line_no,        \* parse_entries: position of the for loop (next line)
    parsed,         \* parse_entries: the list entries being built
    stderr,         \* parse_entries: what was printed to sys.stderr
    ppc,            \* parse_entries: "read", "loop", "done" ("idle": not running)
    log_text,       \* process_file, follow: the content of the file at path
    f_pos,          \* process_file, follow: the position of the file object f
    cur_line,       \* process_file, follow: the local line
    buffer,         \* process_file, follow: the list buffer
    interval_over,  \* process_file, follow: whether time.time() - last_emit > 0.5
    stdout,         \* process_file, follow: the lines printed
    slept,          \* process_file, follow: whether this pass of the loop called time.sleep
    appends,        \* the writes made to the file by its writer since the start
    fpc,            \* process_file, follow: "open", "readline", "emit" ("idle": not running)
    open_len,       \* history: the length of the file when f.seek(0, 2) ran
    reads,          \* history: the non-empty strings f.readline() returned
    helper,         \* prelude: the name of the helper called
    hargs,          \* prelude: the arguments of the call
    hpc,            \* prelude: "call", "communicate", "grace", "reap", "returned", "raised"
    events,         \* prelude: the status events displayed, in order
    result,         \* prelude: the value returned, or the exception raised
    path_kind,      \* prelude: what the path given to rm is: "dir", "file", "missing"
    proc,           \* prelude: the child of run / sh: its state, output and exit code
    signals,        \* prelude: the signals sent to the child's process group, in order
    disk_text       \* prelude: the text of the file at the path given to delete_lines

coalesce_vars == <<entries, verbose, idx, output, text_buffer, text_ts, pc, flushes>>
parse_vars == <<file_text, last, lines, line_no, parsed, stderr, ppc>>
follow_vars ==
    <<log_text, f_pos, cur_line, buffer, interval_over, stdout, slept, appends, fpc, open_len,
      reads>>
prelude_vars == <<helper, hargs, hpc, events, result, path_kind, proc, signals, disk_text>>
vars == <<entries, verbose, idx, output, text_buffer, text_ts, pc, flushes,
          file_text, last, lines, line_no, parsed, stderr, ppc,
          log_text, f_pos, cur_line, buffer, interval_over, stdout, slept, appends, fpc,
          open_len, reads,
          helper, hargs, hpc, events, result, path_kind, proc, signals, disk_text>>

----------------------------------------------------------------------------
(* Python values *)

None == "<None>"

NoneData == [nondict |-> None]

KvClientRecord == [type |-> "kvClient", ts |-> 1001]

TextDeltaA ==
    [type |-> "interactionUpdate", subtype |-> "textDelta", data |-> [text |-> "A"], ts |-> 1000]

TextDeltaB ==
    [type |-> "interactionUpdate", subtype |-> "textDelta", data |-> [text |-> "B"], ts |-> 1002]

BuiltRunRecord ==
    [type |-> "info", subtype |-> "builtRunRequest", data |-> [tools |-> 3], ts |-> 2000]

Truthy(s) == s # None /\ s # ""

IsDict(v) == "nondict" \notin DOMAIN v

Get(d, k, default) == IF k \in DOMAIN d THEN d[k] ELSE default

----------------------------------------------------------------------------
(* Classifier *)

SKIP_DELTAS == {"tokenDelta", "partialToolCall", "heartbeat", "thinkingDelta"}

COALESCE_DELTAS == {"textDelta"}

\* mutant: the skip deltas left out of the test of line 26
get_delta_type_coalesce_only(entry) ==
    LET typ == Get(entry, "type", "")
        subtype == Get(entry, "subtype", "")
        data == Get(entry, "data", <<>>)
    IN  IF typ = "interactionUpdate" /\ subtype \in COALESCE_DELTAS
        THEN subtype
        ELSE IF typ = "info" /\ subtype = "interactionUpdate" /\ IsDict(data)
        THEN Get(data, "updateCase", None)
        ELSE None

\* mutant: the info-wrapped update of lines 29-32 not looked into
get_delta_type_direct_only(entry) ==
    LET typ == Get(entry, "type", "")
        subtype == Get(entry, "subtype", "")
    IN  IF typ = "interactionUpdate" /\ subtype \in (SKIP_DELTAS \cup COALESCE_DELTAS)
        THEN subtype
        ELSE None

get_delta_type(entry) ==
    LET typ == Get(entry, "type", "")
        subtype == Get(entry, "subtype", "")
        data == Get(entry, "data", <<>>)
    IN  IF typ = "interactionUpdate" /\ subtype \in (SKIP_DELTAS \cup COALESCE_DELTAS)
        THEN subtype
        ELSE IF typ = "info" /\ subtype = "interactionUpdate" /\ IsDict(data)
        THEN Get(data, "updateCase", None)
        ELSE None

\* mutant: the execClient pair of lines 55-57 forgotten
structural_noise_no_exec(typ, subtype) ==
    \/ typ = "serverMessage" /\ subtype = "interactionUpdate"
    \/ typ = "kvClient"
    \/ typ = "serverMessage" /\ subtype = "kvServerMessage"
    \/ typ = "serverMessage" /\ subtype = "conversationCheckpointUpdate"

\* lines 43-57 of is_noise: the (type, subtype) pairs dropped as noise
structural_noise(typ, subtype) ==
    \/ typ = "serverMessage" /\ subtype = "interactionUpdate"
    \/ typ = "kvClient"
    \/ typ = "serverMessage" /\ subtype = "kvServerMessage"
    \/ typ = "serverMessage" /\ subtype = "conversationCheckpointUpdate"
    \/ typ = "execClient" /\ subtype = "requestContextResult"

\* mutant: heartbeat not among the skipped deltas
skipped_delta_no_heartbeat(entry) == get_delta_type(entry) \in SKIP_DELTAS \ {"heartbeat"}

\* lines 59-62 of is_noise: the streaming deltas that are skipped
skipped_delta(entry) == get_delta_type(entry) \in SKIP_DELTAS

\* mutant: verbose not looked at
noise_filter_on_always(v) == TRUE

\* lines 37-38 of is_noise: verbose switches the filter off
noise_filter_on(v) == ~v

is_noise(entry, v) ==
    /\ noise_filter_on(v)
    /\ \/ structural_noise(Get(entry, "type", ""), Get(entry, "subtype", ""))
       \/ skipped_delta(entry)

----------------------------------------------------------------------------
(* Line formatter *)

Pad2(n) == IF n < 10 THEN "0" \o ToString(n) ELSE ToString(n)

Pad3(n) == IF n < 10 THEN "00" \o ToString(n)
           ELSE IF n < 100 THEN "0" \o ToString(n) ELSE ToString(n)

\* datetime.fromtimestamp(ts / 1000).strftime("%H:%M:%S.%f")[:-3], the local
\* zone being UTC: the clock time of day of ts milliseconds, to the millisecond.
strftime_ms(ts) ==
    Pad2((ts \div 3600000) % 24) \o ":" \o Pad2((ts \div 60000) % 60) \o ":"
        \o Pad2((ts \div 1000) % 60) \o "." \o Pad3(ts % 1000)

\* json.dumps(d, default=str), tabulated for the payloads of the vocabulary below.
json_dumps(d) ==
    CASE d = [tools |-> 3] -> "{\"tools\": 3}"
      [] d = [updateCase |-> "heartbeat"] -> "{\"updateCase\": \"heartbeat\"}"
      [] d = [updateCase |-> "tokenDelta"] -> "{\"updateCase\": \"tokenDelta\"}"
      [] d = [updateCase |-> "partialToolCall"] -> "{\"updateCase\": \"partialToolCall\"}"
      [] d = [updateCase |-> "thinkingDelta"] -> "{\"updateCase\": \"thinkingDelta\"}"
      [] d = [updateCase |-> "textDelta"] -> "{\"updateCase\": \"textDelta\"}"
      [] d = [ok |-> 1] -> "{\"ok\": 1}"
      [] d = [text |-> "A"] -> "{\"text\": \"A\"}"
      [] d = [ok |-> 1, detail |-> "d"] -> "{\"ok\": 1, \"detail\": \"d\"}"
      [] d = [message |-> [case |-> "shellArgs", value |-> [command |-> "echo hi"]]]
           -> "{\"message\": {\"case\": \"shellArgs\", \"value\": {\"command\": \"echo hi\"}}}"

\* s[:n]
Cut(s, n) == IF Len(s) > n THEN SubSeq(s, 1, n) ELSE s

\* The branches mcpArgs, grepArgs and readArgs/writeArgs/lsArgs/deleteArgs of
\* lines 75-91 are not modelled: no record of the vocabulary carries them.
format_data(typ, subtype, data) ==
    IF ~IsDict(data) \/ DOMAIN data = {} THEN ""
    ELSE IF typ = "serverMessage" /\ subtype = "execServerMessage" THEN
        LET msg == Get(data, "message", <<>>)
            case == Get(msg, "case", "")
            value == Get(msg, "value", <<>>)
        IN  IF case = "shellArgs"
            THEN " shell:" \o Cut(Get(value, "command", ""), 50)
            ELSE " " \o case
    ELSE IF typ = "info" /\ subtype = "interactionUpdate" THEN
        " " \o Get(data, "updateCase", "")
    ELSE IF typ = "info" /\ subtype = "builtRunRequest" THEN
        " tools=" \o ToString(Get(data, "tools", 0))
    ELSE IF typ = "info" /\ subtype = "execClientMessage" THEN
        " " \o Get(data, "messageCase", "")
    ELSE
        LET filtered == [k \in DOMAIN data \ {"detail", "$typeName"} |-> data[k]]
        IN  IF DOMAIN filtered = {} THEN ""
            ELSE LET s == json_dumps(filtered)
                 IN  IF Len(s) > 120 THEN " " \o SubSeq(s, 1, 120) \o "..." ELSE " " \o s

format_entry(entry, v) ==
    IF is_noise(entry, v) THEN None
    ELSE
        LET ts == Get(entry, "ts", 0)
            typ == Get(entry, "type", "?")
            subtype == Get(entry, "subtype", None)
            data == Get(entry, "data", NoneData)
            data_truthy == IF IsDict(data) THEN DOMAIN data # {} ELSE Truthy(data.nondict)
            time_str == IF ts # 0 THEN strftime_ms(ts) ELSE "??:??:??"
            type_str == IF Truthy(subtype) THEN typ \o ":" \o subtype ELSE typ
            data_str == IF v
                        THEN (IF data_truthy THEN " " \o Cut(json_dumps(data), 300) ELSE "")
                        ELSE format_data(typ, IF Truthy(subtype) THEN subtype ELSE "", data)
        IN  "[" \o time_str \o "] " \o type_str \o data_str

----------------------------------------------------------------------------
(* Coalescing reducer *)

extract_text_delta(entry) ==
    LET data == Get(entry, "data", <<>>)
    IN  IF ~IsDict(data) THEN None
        ELSE IF "text" \in DOMAIN data THEN data["text"]
        ELSE LET msg == Get(data, "message", <<>>)
             IN  IF ~IsDict(msg) THEN None
                 ELSE LET value == Get(msg, "value", <<>>)
                      IN  IF IsDict(value) /\ "text" \in DOMAIN value
                          THEN value["text"] ELSE None

\* text_buffer.replace("\n", "\\n"): every character is kept, a newline
\* becoming the two characters \ and n (computed by halves, which keeps the
\* evaluation shallow on long texts).
RECURSIVE escape_newlines(_)
escape_newlines(s) ==
    IF Len(s) = 0 THEN ""
    ELSE IF Len(s) = 1 THEN (IF s = "\n" THEN "\\n" ELSE s)
    ELSE LET h == Len(s) \div 2
         IN  escape_newlines(SubSeq(s, 1, h)) \o escape_newlines(SubSeq(s, h + 1, Len(s)))

TEXT_CAP == 300

\* lines 155-157 of flush_text: the text shown on the line
flushed_text(buf) ==
    LET text == escape_newlines(buf)
    IN  IF Len(text) > TEXT_CAP THEN SubSeq(text, 1, TEXT_CAP) \o "..." ELSE text

\* lines 154 and 158 of flush_text: the line appended to output
text_line(ts, buf) == "[" \o strftime_ms(ts) \o "] text: " \o flushed_text(buf)

\* mutant: the test "if text_buffer" of line 153 dropped
flush_text_always(out, buf, ts) == Append(out, text_line(ts, buf))

\* lines 153-159 of flush_text: the buffers a line was made of, as they were
\* before the escaping and the cap
flushed_buffers(fl, buf) == IF buf # "" THEN Append(fl, buf) ELSE fl

\* flush_text: what it makes of output (text_buffer and text_ts are reset by
\* the calling action)
flush_text(out, buf, ts) == IF buf # "" THEN Append(out, text_line(ts, buf)) ELSE out

\* mutant: the type not looked at, a missing one passing for "interactionUpdate"
is_text_delta_by_subtype(entry) == Get(entry, "subtype", "") = "textDelta"

\* lines 167: the test that sends a record to the accumulator
is_text_delta(entry) ==
    Get(entry, "type", "") = "interactionUpdate" /\ Get(entry, "subtype", "") = "textDelta"

\* mutant: the timestamp taken from every fragment, not only the first
next_text_ts_latest(entry, buf, ts) == Get(entry, "ts", 0)

\* lines 170-171: the timestamp kept for the run
next_text_ts(entry, buf, ts) == IF buf = "" THEN Get(entry, "ts", 0) ELSE ts

\* mutant: the text of the fragment replaces the buffer ("=" for "+=" at line 172)
AccumulateText_overwrite ==
    /\ pc = "loop" /\ idx <= Len(entries)
    /\ is_text_delta(entries[idx])
    /\ LET text == extract_text_delta(entries[idx])
       IN  IF Truthy(text)
           THEN /\ text_ts' = next_text_ts(entries[idx], text_buffer, text_ts)
                /\ text_buffer' = text
           ELSE UNCHANGED <<text_buffer, text_ts>>
    /\ idx' = idx + 1
    /\ UNCHANGED <<entries, verbose, output, pc, flushes, parse_vars, follow_vars, prelude_vars>>

\* lines 167-173: one pass of the loop over a textDelta record
AccumulateText ==
    /\ pc = "loop" /\ idx <= Len(entries)
    /\ is_text_delta(entries[idx])
    /\ LET text == extract_text_delta(entries[idx])
       IN  IF Truthy(text)
           THEN /\ text_ts' = next_text_ts(entries[idx], text_buffer, text_ts)
                /\ text_buffer' = text_buffer \o text
           ELSE UNCHANGED <<text_buffer, text_ts>>
    /\ idx' = idx + 1
    /\ UNCHANGED <<entries, verbose, output, pc, flushes, parse_vars, follow_vars, prelude_vars>>

\* lines 175-177: one pass of the loop over a record dropped as noise
SkipNoise ==
    /\ pc = "loop" /\ idx <= Len(entries)
    /\ ~is_text_delta(entries[idx])
    /\ is_noise(entries[idx], verbose)
    /\ idx' = idx + 1
    /\ UNCHANGED <<entries, verbose, output, text_buffer, text_ts, pc, flushes, parse_vars,
                   follow_vars, prelude_vars>>

\* mutant: the entry's line appended before the flush
emit_entry_line_first(out, buf, ts, formatted) ==
    flush_text(IF Truthy(formatted) THEN Append(out, formatted) ELSE out, buf, ts)

\* lines 180-184: the text buffer is flushed first, then the entry's line follows
emit_entry(out, buf, ts, formatted) ==
    LET flushed == flush_text(out, buf, ts)
    IN  IF Truthy(formatted) THEN Append(flushed, formatted) ELSE flushed

\* lines 179-184: one pass of the loop over a real entry
EmitEntry ==
    /\ pc = "loop" /\ idx <= Len(entries)
    /\ ~is_text_delta(entries[idx])
    /\ ~is_noise(entries[idx], verbose)
    /\ output' = emit_entry(output, text_buffer, text_ts, format_entry(entries[idx], verbose))
    /\ flushes' = flushed_buffers(flushes, text_buffer)
    /\ text_buffer' = ""
    /\ text_ts' = 0
    /\ idx' = idx + 1
    /\ UNCHANGED <<entries, verbose, pc, parse_vars, follow_vars, prelude_vars>>

\* lines 186-187: the flush after the loop and the return
Finish ==
    /\ pc = "loop" /\ idx > Len(entries)
    /\ output' = flush_text(output, text_buffer, text_ts)
    /\ flushes' = flushed_buffers(flushes, text_buffer)
    /\ text_buffer' = ""
    /\ text_ts' = 0
    /\ pc' = "done"
    /\ UNCHANGED <<entries, verbose, idx, parse_vars, follow_vars, prelude_vars>>

\* lines 163-184: what one pass of the loop makes of output, text_buffer and
\* text_ts, held in the record st
coalesce_step(st, entry, v) ==
    IF is_text_delta(entry)
    THEN LET text == extract_text_delta(entry)
         IN  IF Truthy(text)
             THEN [out |-> st.out, buf |-> st.buf \o text,
                   ts |-> next_text_ts(entry, st.buf, st.ts)]
             ELSE st
    ELSE IF is_noise(entry, v) THEN st
    ELSE [out |-> emit_entry(st.out, st.buf, st.ts, format_entry(entry, v)),
          buf |-> "", ts |-> 0]

\* line 162: the for loop over entries, from the state st on (x is st, bound
\* as a value so that each pass is evaluated once)
RECURSIVE coalesce_loop(_, _, _)
coalesce_loop(st, es, v) ==
    IF es = <<>> THEN st
    ELSE CHOOSE r \in {coalesce_loop(coalesce_step(x, Head(es), v), Tail(es), v) : x \in {st}} :
             TRUE

\* mutant: the flush after the loop (line 186) left out
coalesce_entries_no_final_flush(es, v) ==
    CHOOSE out \in { st.out : st \in {coalesce_loop([out |-> <<>>, buf |-> "", ts |-> 0], es, v)} } : TRUE

\* coalesce_entries(entries, verbose) as one call: lines 147-149, the loop,
\* the last flush and the return
coalesce_entries(es, v) ==
    CHOOSE out \in { flush_text(st.out, st.buf, st.ts) :
                        st \in {coalesce_loop([out |-> <<>>, buf |-> "", ts |-> 0], es, v)} } :
        TRUE

----------------------------------------------------------------------------
(* Batch source *)

\* the characters str.strip() removes, which are also JSON's whitespace
Whitespace == {" ", "\n", "\t", "\r"}

RECURSIVE py_lstrip(_)
py_lstrip(s) ==
    IF Len(s) > 0 /\ SubSeq(s, 1, 1) \in Whitespace
    THEN py_lstrip(SubSeq(s, 2, Len(s))) ELSE s

RECURSIVE py_rstrip(_)
py_rstrip(s) ==
    IF Len(s) > 0 /\ SubSeq(s, Len(s), Len(s)) \in Whitespace
    THEN py_rstrip(SubSeq(s, 1, Len(s) - 1)) ELSE s

\* s.strip()
py_strip(s) == py_rstrip(py_lstrip(s))

\* s.split("\n")
RECURSIVE py_split(_)
py_split(s) ==
    LET nl == {i \in 1..Len(s) : SubSeq(s, i, i) = "\n"}
    IN  IF nl = {} THEN <<s>>
        ELSE LET i == CHOOSE k \in nl : \A m \in nl : k <= m
             IN  <<SubSeq(s, 1, i - 1)>> \o py_split(SubSeq(s, i + 1, Len(s)))

\* line 192: path.read_text().strip().split("\n")
read_lines(text) == py_split(py_strip(text))

\* mutant: the slice counted from the front, lines[:last]
last_lines_from_front(ls, n) ==
    IF n > 0
    THEN (IF Len(ls) > n THEN SubSeq(ls, 1, n) ELSE ls)
    ELSE ls

\* lines 193-194: lines[-last:] if len(lines) > last else lines, under last > 0
last_lines(ls, n) ==
    IF n > 0
    THEN (IF Len(ls) > n THEN SubSeq(ls, Len(ls) - n + 1, Len(ls)) ELSE ls)
    ELSE ls

JSONDecodeError == [JSONDecodeError |-> TRUE]

IsDecodeError(v) == "JSONDecodeError" \in DOMAIN v

\* json.loads(line), tabulated for the JSON texts of the files below: leading
\* and trailing whitespace is allowed, anything else around or instead of one
\* JSON value raises JSONDecodeError.
json_loads(line) ==
    LET s == py_strip(line)
    IN  CASE s = "{\"ts\": 1}" -> [ts |-> 1]
          [] s = "{\"ts\": 2}" -> [ts |-> 2]
          [] s = "{\"ts\": 3}" -> [ts |-> 3]
          [] s = "{\"ts\": 4}" -> [ts |-> 4]
          [] s = "{\"ts\": 5}" -> [ts |-> 5]
          [] s = "{\"type\": \"kvClient\", \"ts\": 1001}" -> KvClientRecord
          [] s = "{\"type\": \"interactionUpdate\", \"subtype\": \"textDelta\", \"data\": {\"text\": \"A\"}, \"ts\": 1000}"
                -> TextDeltaA
          [] s = "{\"type\": \"interactionUpdate\", \"subtype\": \"textDelta\", \"data\": {\"text\": \"B\"}, \"ts\": 1002}"
                -> TextDeltaB
          [] s = "{\"type\": \"info\", \"subtype\": \"builtRunRequest\", \"data\": {\"tools\": 3}, \"ts\": 2000}"
                -> BuiltRunRecord
          [] OTHER -> JSONDecodeError

PREVIEW_CAP == 100

\* line 200: the message printed to sys.stderr
parse_error_message(line) == "[PARSE ERROR] " \o Cut(line, PREVIEW_CAP)

\* line 196: the test that skips a blank line
is_blank(line) == py_strip(line) = ""

\* lines 191-194: the file is read, split and truncated
ReadLines ==
    /\ ppc = "read"
    /\ lines' = last_lines(read_lines(file_text), last)
    /\ line_no' = 1
    /\ parsed' = <<>>
    /\ ppc' = "loop"
    /\ UNCHANGED <<file_text, last, stderr, coalesce_vars, follow_vars, prelude_vars>>

\* lines 195-196: a line whose strip() is empty is passed over
SkipBlankLine ==
    /\ ppc = "loop" /\ line_no <= Len(lines)
    /\ is_blank(lines[line_no])
    /\ line_no' = line_no + 1
    /\ UNCHANGED <<file_text, last, lines, parsed, stderr, ppc, coalesce_vars, follow_vars, prelude_vars>>

\* lines 197-198: the line parses and its record is appended
AppendEntry ==
    /\ ppc = "loop" /\ line_no <= Len(lines)
    /\ ~is_blank(lines[line_no])
    /\ ~IsDecodeError(json_loads(lines[line_no]))
    /\ parsed' = Append(parsed, json_loads(lines[line_no]))
    /\ line_no' = line_no + 1
    /\ UNCHANGED <<file_text, last, lines, stderr, ppc, coalesce_vars, follow_vars, prelude_vars>>

\* mutant: the error is printed and the loop is left
ReportParseError_and_stop ==
    /\ ppc = "loop" /\ line_no <= Len(lines)
    /\ ~is_blank(lines[line_no])
    /\ IsDecodeError(json_loads(lines[line_no]))
    /\ stderr' = Append(stderr, parse_error_message(lines[line_no]))
    /\ line_no' = Len(lines) + 1
    /\ UNCHANGED <<file_text, last, lines, parsed, ppc, coalesce_vars, follow_vars, prelude_vars>>

\* lines 199-200: json.loads raises, the error is printed and the loop goes on
ReportParseError ==
    /\ ppc = "loop" /\ line_no <= Len(lines)
    /\ ~is_blank(lines[line_no])
    /\ IsDecodeError(json_loads(lines[line_no]))
    /\ stderr' = Append(stderr, parse_error_message(lines[line_no]))
    /\ line_no' = line_no + 1
    /\ UNCHANGED <<file_text, last, lines, parsed, ppc, coalesce_vars, follow_vars, prelude_vars>>

\* line 201: return entries
ReturnEntries ==
    /\ ppc = "loop" /\ line_no > Len(lines)
    /\ ppc' = "done"
    /\ UNCHANGED <<file_text, last, lines, line_no, parsed, stderr, coalesce_vars, follow_vars, prelude_vars>>

----------------------------------------------------------------------------
(* Inputs of coalesce_entries *)

MaxEntries == 3

TextDelta(t, ts) ==
    [type |-> "interactionUpdate", subtype |-> "textDelta", data |-> [text |-> t], ts |-> ts]

TextA == TextDelta("A", 1000)
TextB == TextDelta("B", 1002)
\* text nested in message.value, holding a newline; no ts
TextNested ==
    [type |-> "interactionUpdate", subtype |-> "textDelta",
     data |-> [message |-> [value |-> [text |-> "c\nd"]]]]
TextEmpty == TextDelta("", 3723004)
TextNoData == [type |-> "interactionUpdate", subtype |-> "textDelta", ts |-> 1700]
TextScalarData ==
    [type |-> "interactionUpdate", subtype |-> "textDelta", data |-> [nondict |-> "x"], ts |-> 1800]

KvClient == KvClientRecord
StructuralNoise ==
    { KvClient,
      [type |-> "kvClient", subtype |-> "getBlobArgs", ts |-> 1001],
      [type |-> "serverMessage", subtype |-> "interactionUpdate", ts |-> 1001],
      [type |-> "serverMessage", subtype |-> "kvServerMessage", ts |-> 1001],
      [type |-> "serverMessage", subtype |-> "conversationCheckpointUpdate", ts |-> 1001],
      [type |-> "execClient", subtype |-> "requestContextResult", ts |-> 1001] }

DirectSkip ==
    { [type |-> "interactionUpdate", subtype |-> s, ts |-> 1001] : s \in SKIP_DELTAS }

WrappedSkip ==
    { [type |-> "info", subtype |-> "interactionUpdate", data |-> [updateCase |-> s], ts |-> 1001]
        : s \in SKIP_DELTAS }

BuiltRun == [type |-> "info", subtype |-> "builtRunRequest", data |-> [tools |-> 3], ts |-> 2000]
WrappedText ==
    [type |-> "info", subtype |-> "interactionUpdate", data |-> [updateCase |-> "textDelta"],
     ts |-> 3723004]
NoType == [ts |-> 0]
Generic == [type |-> "agentClient", data |-> [ok |-> 1, detail |-> "d"], ts |-> 2500]
ShellArgs ==
    [type |-> "serverMessage", subtype |-> "execServerMessage", ts |-> 2600,
     data |-> [message |-> [case |-> "shellArgs", value |-> [command |-> "echo hi"]]]]

WrappedNoCase == [type |-> "info", subtype |-> "interactionUpdate", ts |-> 2700]

\* records with fields missing: no type, subtype, ts or data; no type and no ts;
\* a type and nothing else
UnknownOnly == [id |-> 7]
SubtypeOnly == [subtype |-> "textDelta", data |-> [text |-> "A"]]
TypeOnly == [type |-> "agentClient"]

NoiseShapes == StructuralNoise \cup DirectSkip \cup WrappedSkip

\* the fragments and the records that are rendered in both modes
Core == {TextA, TextB, TextNested, TextEmpty, BuiltRun, WrappedText, NoType}

\* 150 characters
Long150 ==
    "012345678901234567890123456789012345678901234567890123456789012345678901234567890123456789012345678901234567890123456789012345678901234567890123456789"

Examples ==
    { <<TextA, KvClient, TextB, BuiltRun>>,
      <<TextDelta(Long150, 1000), TextDelta(Long150, 2000)>>,
      <<TextDelta(Long150, 1000), TextDelta(Long150, 2000), TextA>>,
      <<TextDelta(Long150, 1000), KvClient, TextDelta(Long150, 2000), TextNested, BuiltRun>>,
      <<TextA, TextNoData, TextScalarData, TextB, Generic, ShellArgs, WrappedNoCase>>,
      <<TextA, KvClient, [type |-> "interactionUpdate", subtype |-> "heartbeat", ts |-> 1001],
        [type |-> "info", subtype |-> "interactionUpdate", data |-> [updateCase |-> "tokenDelta"],
         ts |-> 1001],
        TextB>>,
      <<TextA, UnknownOnly, TextB>>,
      <<SubtypeOnly, TypeOnly, NoType>>,
      <<TextA, SubtypeOnly>>,
      <<TextDelta(Long150, 1000), TextDelta(Long150, 2000), TextA, BuiltRun, TextNested>> }

\* The streams: every sequence of at most MaxEntries records over the core
\* records and one noise shape, plus the examples.
Inputs ==
    UNION {[1..n -> Core \cup {noise}] : n \in 0..MaxEntries, noise \in NoiseShapes}
        \cup Examples

FollowIdle ==
    /\ log_text = "" /\ f_pos = 0 /\ cur_line = "" /\ buffer = <<>> /\ interval_over = FALSE
    /\ stdout = <<>> /\ slept = FALSE /\ appends = 0 /\ fpc = "idle" /\ open_len = 0 /\ reads = <<>>

NoProc == [state |-> "none", out |-> "", code |-> 0]

\* (end is <<>> for None and <<e>> for the integer e)
NoArgs ==
    [text |-> "", n |-> 0, recursive |-> FALSE, timeout |-> None, shell |-> "found",
     start |-> 0, end |-> <<>>]

PreludeIdle ==
    /\ helper = "" /\ hargs = NoArgs /\ hpc = "idle" /\ events = <<>> /\ result = None
    /\ path_kind = "missing" /\ proc = NoProc /\ signals = <<>> /\ disk_text = ""

ParseIdle ==
    /\ file_text = "" /\ last = 0 /\ lines = <<>> /\ line_no = 0
    /\ parsed = <<>> /\ stderr = <<>> /\ ppc = "idle"

\* coalesce_entries(entries, verbose) entered: lines 147-149
Init ==
    /\ entries \in Inputs
    /\ verbose \in BOOLEAN
    /\ idx = 1
    /\ output = <<>>
    /\ text_buffer = ""
    /\ text_ts = 0
    /\ pc = "loop"
    /\ flushes = <<>>
    /\ ParseIdle
    /\ FollowIdle
    /\ PreludeIdle

Next == AccumulateText \/ SkipNoise \/ EmitEntry \/ Finish

Spec == Init /\ [][Next]_vars


----------------------------------------------------------------------------
(* Inputs of parse_entries *)

MaxLines == 4

MaxLast == 3

Doc1 == "{\"ts\": 1}"
Doc2 == "{\"ts\": 2}"
Doc3 == "{\"ts\": 3}"
Doc4 == "{\"ts\": 4}"
Doc5 == "{\"ts\": 5}"
NotJson == "{not json"

\* a blank line, a line of whitespace, two valid lines (one padded), a
\* malformed line
LineTexts == {"", " ", Doc1, " " \o Doc2 \o " ", NotJson}

RECURSIVE join_lines(_)
join_lines(ls) ==
    IF Len(ls) = 0 THEN ""
    ELSE IF Len(ls) = 1 THEN ls[1]
    ELSE ls[1] \o "\n" \o join_lines(Tail(ls))

ExampleFiles ==
    { join_lines(<<NotJson, Doc1>>) \o "\n",
      join_lines(<<" " \o NotJson \o " ", Doc1, NotJson \o "  ">>) \o "\n",
      join_lines(<<Doc1, Doc2, Doc3, Doc4, Doc5>>) \o "\n",
      join_lines(<<Doc1, Doc2, Doc3, Doc4, Doc5>>),
      join_lines(<<Doc1, NotJson \o Long150, Doc1 \o Doc2, "\t" \o Doc3 \o "\t", Doc4>>) \o "\n",
      join_lines(<<Doc1, "{\"type\": \"kvClient\", \"ts\": 1001}", "", Doc2>>) \o "\n\n\n" }

\* The files: at most MaxLines lines over LineTexts, with or without the
\* newline that ends the last line, plus the examples.
Files ==
    { join_lines(ls) \o end :
        ls \in UNION {[1..n -> LineTexts] : n \in 0..MaxLines}, end \in {"", "\n"} }
        \cup ExampleFiles

CoalesceIdle ==
    /\ entries = <<>> /\ verbose = FALSE /\ idx = 0 /\ output = <<>>
    /\ text_buffer = "" /\ text_ts = 0 /\ pc = "idle" /\ flushes = <<>>

\* parse_entries(path, last) entered
InitParse ==
    /\ file_text \in Files
    /\ last \in (-1)..MaxLast
    /\ lines = <<>>
    /\ line_no = 0
    /\ parsed = <<>>
    /\ stderr = <<>>
    /\ ppc = "read"
    /\ CoalesceIdle
    /\ FollowIdle
    /\ PreludeIdle

NextParse == ReadLines \/ SkipBlankLine \/ AppendEntry \/ ReportParseError \/ ReturnEntries

SpecParse == InitParse /\ [][NextParse]_vars

----------------------------------------------------------------------------
(* Follow source: the branch "if follow" of process_file.  Wall-clock time   *)
(* is kept as the one fact the loop asks of it, whether more than 0.5 s     *)
(* passed since last_emit: it becomes true as time passes and false when    *)
(* last_emit is set to time.time().                                         *)

\* mutant: the file is followed from its start
seek_start(text) == 0

\* line 211: f.seek(0, 2), the position of the end of the file
seek_end(text) == Len(text)

\* the position of the first newline of text after position pos, or one past
\* the end of text when there is none
next_newline(text, pos) ==
    CHOOSE k \in (pos + 1)..(Len(text) + 1) :
        /\ k = Len(text) + 1 \/ SubSeq(text, k, k) = "\n"
        /\ \A m \in (pos + 1)..(k - 1) : SubSeq(text, m, m) # "\n"

\* line 215: f.readline() at position pos of a file holding text: up to and
\* with the next newline, or up to the end of the file
readline(text, pos) ==
    IF next_newline(text, pos) > Len(text) THEN SubSeq(text, pos + 1, Len(text))
    ELSE SubSeq(text, pos + 1, next_newline(text, pos))

\* lines 216-220: what the line read makes of buffer; a line that json.loads
\* rejects leaves it as it is
follow_buffer(buf, l) ==
    IF l # "" /\ py_strip(l) # "" /\ ~IsDecodeError(json_loads(l))
    THEN Append(buf, json_loads(l)) ELSE buf

BUFFER_LIMIT == 50

\* mutant: the buffer is emitted on its size alone
emit_due_by_size(buf, over) == buf # <<>> /\ Len(buf) > BUFFER_LIMIT

\* mutant: the buffer is emitted on the half second alone
emit_due_by_time(buf, over) == buf # <<>> /\ over

\* line 222: the test that emits the buffer
emit_due(buf, over) == buf # <<>> /\ (over \/ Len(buf) > BUFFER_LIMIT)

\* lines 210-213: the file is opened and positioned, buffer and last_emit set
FollowOpen ==
    /\ fpc = "open"
    /\ f_pos' = seek_end(log_text)
    /\ open_len' = Len(log_text)
    /\ buffer' = <<>>
    /\ interval_over' = FALSE
    /\ fpc' = "readline"
    /\ UNCHANGED <<slept, log_text, cur_line, stdout, appends, reads, coalesce_vars, parse_vars,
                   prelude_vars>>

\* lines 215-220: a line is read and, if it parses, buffered
FollowReadLine ==
    /\ fpc = "readline"
    /\ \E l \in {readline(log_text, f_pos)} :
           /\ cur_line' = l
           /\ f_pos' = f_pos + Len(l)
           /\ reads' = IF l # "" THEN Append(reads, l) ELSE reads
           /\ buffer' = follow_buffer(buffer, l)
    /\ fpc' = "emit"
    /\ slept' = FALSE
    /\ UNCHANGED <<log_text, interval_over, stdout, appends, open_len,
                   coalesce_vars, parse_vars,
                   prelude_vars>>

\* lines 222-226: the buffer is coalesced and printed, then emptied
FollowEmit ==
    /\ fpc = "emit"
    /\ emit_due(buffer, interval_over)
    /\ \E out \in {coalesce_entries(buffer, verbose)} : stdout' = stdout \o out
    /\ buffer' = <<>>
    /\ interval_over' = FALSE
    /\ fpc' = "readline"
    /\ slept' = FALSE
    /\ UNCHANGED <<log_text, f_pos, cur_line, appends, open_len, reads, coalesce_vars, parse_vars,
                   prelude_vars>>

\* lines 227-228: nothing was read and nothing is due: time.sleep(0.05)
FollowSleep ==
    /\ fpc = "emit"
    /\ ~emit_due(buffer, interval_over)
    /\ cur_line = ""
    /\ \E over \in {interval_over, TRUE} : interval_over' = over
    /\ fpc' = "readline"
    /\ slept' = TRUE
    /\ UNCHANGED <<log_text, f_pos, cur_line, buffer, stdout, appends, open_len, reads,
                   coalesce_vars, parse_vars,
                   prelude_vars>>

\* lines 222 and 227: a line was read and nothing is due: the loop goes on
FollowContinue ==
    /\ fpc = "emit"
    /\ ~emit_due(buffer, interval_over)
    /\ cur_line # ""
    /\ fpc' = "readline"
    /\ slept' = FALSE
    /\ UNCHANGED <<log_text, f_pos, cur_line, buffer, interval_over, stdout, appends, open_len,
                   reads, coalesce_vars, parse_vars,
                   prelude_vars>>

\* the wall clock passes the half second after last_emit
TimePasses ==
    /\ fpc \in {"readline", "emit"}
    /\ ~interval_over
    /\ interval_over' = TRUE
    /\ UNCHANGED <<slept, log_text, f_pos, cur_line, buffer, stdout, appends, fpc, open_len, reads,
                   coalesce_vars, parse_vars,
                   prelude_vars>>

(* Inputs of the follow source *)

MaxAppends == 2

LineTextA ==
    "{\"type\": \"interactionUpdate\", \"subtype\": \"textDelta\", \"data\": {\"text\": \"A\"}, \"ts\": 1000}"
LineTextB ==
    "{\"type\": \"interactionUpdate\", \"subtype\": \"textDelta\", \"data\": {\"text\": \"B\"}, \"ts\": 1002}"
LineBuiltRun ==
    "{\"type\": \"info\", \"subtype\": \"builtRunRequest\", \"data\": {\"tools\": 3}, \"ts\": 2000}"

RECURSIVE Repeat(_, _)
Repeat(s, n) == IF n = 0 THEN "" ELSE s \o Repeat(s, n - 1)

\* one write of BUFFER_LIMIT + 2 records: one more than fills the buffer
Burst == Repeat(Doc1 \o "\n", BUFFER_LIMIT + 2)

\* what one write of the writer appends: a fragment, a second fragment, a
\* rendered record, a malformed line, a blank line
Chunks ==
    {LineTextA \o "\n", LineTextB \o "\n", LineBuiltRun \o "\n", NotJson \o "\n", "\n"}

\* the file before the viewer starts: empty, or holding records already
InitialLogs == {"", Doc2 \o "\n" \o LineTextA \o "\n"}

\* the writer of the log appends to it
WriterAppends ==
    /\ fpc # "idle"
    /\ appends < MaxAppends
    /\ \E chunk \in Chunks : log_text' = log_text \o chunk
    /\ appends' = appends + 1
    /\ UNCHANGED <<slept, f_pos, cur_line, buffer, interval_over, stdout, fpc, open_len, reads,
                   coalesce_vars, parse_vars,
                   prelude_vars>>

\* the writer appends the burst, as its only write
WriterBurst ==
    /\ fpc # "idle"
    /\ appends = 0
    /\ log_text' = log_text \o Burst
    /\ appends' = MaxAppends
    /\ UNCHANGED <<slept, f_pos, cur_line, buffer, interval_over, stdout, fpc, open_len, reads,
                   coalesce_vars, parse_vars,
                   prelude_vars>>

\* a line of the writer in two writes: what the first write holds, and the rest
LineBuiltRunHead == "{\"type\": \"info\", \"subtype\": \"builtRun"
LineBuiltRunRest == "Request\", \"data\": {\"tools\": 3}, \"ts\": 2000}"

\* the writer writes the start of a line, as its first write, and nothing else
\* before the rest of that line
WriterStartsLine ==
    /\ fpc # "idle"
    /\ appends = 0
    /\ log_text' = log_text \o LineBuiltRunHead
    /\ appends' = MaxAppends
    /\ UNCHANGED <<slept, f_pos, cur_line, buffer, interval_over, stdout, fpc, open_len, reads,
                   coalesce_vars, parse_vars,
                   prelude_vars>>

\* the writer writes the rest of the line it started, and its newline
WriterEndsLine ==
    /\ fpc # "idle"
    /\ appends = MaxAppends
    /\ Len(log_text) >= Len(LineBuiltRunHead)
    /\ SubSeq(log_text, Len(log_text) - Len(LineBuiltRunHead) + 1, Len(log_text)) = LineBuiltRunHead
    /\ log_text' = log_text \o LineBuiltRunRest \o "\n"
    /\ appends' = appends + 1
    /\ UNCHANGED <<slept, f_pos, cur_line, buffer, interval_over, stdout, fpc, open_len, reads,
                   coalesce_vars, parse_vars,
                   prelude_vars>>

\* process_file(path, verbose, follow=True, last) entered, the file existing
InitFollow ==
    /\ log_text \in InitialLogs
    /\ verbose \in BOOLEAN
    /\ last \in (IF log_text = "" THEN {0} ELSE {0, MaxLast})
    /\ f_pos = 0 /\ cur_line = "" /\ buffer = <<>> /\ interval_over = FALSE
    /\ stdout = <<>> /\ slept = FALSE /\ appends = 0 /\ fpc = "open" /\ open_len = 0 /\ reads = <<>>
    /\ entries = <<>> /\ idx = 0 /\ output = <<>> /\ text_buffer = "" /\ text_ts = 0
    /\ flushes = <<>>
    /\ pc = "idle"
    /\ file_text = "" /\ lines = <<>> /\ line_no = 0 /\ parsed = <<>> /\ stderr = <<>>
    /\ ppc = "idle"
    /\ PreludeIdle

NextFollow ==
    \/ FollowOpen \/ FollowReadLine \/ FollowEmit \/ FollowSleep \/ FollowContinue
    \/ TimePasses \/ WriterAppends \/ WriterBurst \/ WriterStartsLine \/ WriterEndsLine

SpecFollow == InitFollow /\ [][NextFollow]_vars

\* the process keeps running, and so does the wall clock
FollowLoop == FollowOpen \/ FollowReadLine \/ FollowEmit \/ FollowSleep \/ FollowContinue

SpecFollowLive ==
    InitFollow /\ [][NextFollow]_vars /\ WF_vars(FollowLoop) /\ WF_vars(TimePasses)

----------------------------------------------------------------------------
(* Prelude helpers of packages/coding-agent/src/core/python-prelude.py: one  *)
(* call of one public helper, from its entry to its return or to the         *)
(* exception that leaves it.  A status event is the record of its op, of the *)
(* helper whose body emitted it and of its error field (None when absent).   *)

\* _emit_status(op, **data), called in the body of helper h
emit_status(evs, h, op, error) == Append(evs, [op |-> op, emitter |-> h, error |-> error])

\* the helpers that emit one event as their last statement before the return
\* (env and uniq on each of their paths)
SimpleHelpers ==
    { "pwd", "cd", "env", "read", "write", "append", "mkdir", "mv", "cp", "ls", "find",
      "grep", "rgrep", "head", "replace", "cat", "touch", "wc", "sort_lines", "uniq", "cols",
      "tree", "stat", "diff", "sed", "rsed", "lines", "delete_matching",
      "insert_at", "git_has_changes" }

\* the helpers that work on text alone and raise nothing
TextHelpers == {"head", "wc", "sort_lines", "uniq", "cols"}

\* the git helpers that test the exit code of git
GitHelpers == {"git_status", "git_diff", "git_log", "git_show", "git_file_at", "git_branch"}

ShellHelpers == {"run", "sh"}

PublicHelpers ==
    SimpleHelpers \cup GitHelpers \cup ShellHelpers
        \cup {"rm", "tail", "glob_files", "batch", "delete_lines"}

\* the first argument of the _emit_status calls in the body of helper h
\* (run and sh emit through _make_shell_result, line 357)
status_op(h) ==
    CASE h = "glob_files" -> "glob"
      [] h \in ShellHelpers -> "sh"
      [] OTHER -> h

\* a helper of SimpleHelpers runs to its return
SimpleReturns ==
    /\ hpc = "call" /\ helper \in SimpleHelpers
    /\ events' = emit_status(events, helper, status_op(helper), None)
    /\ result' = "value"
    /\ hpc' = "returned"
    /\ UNCHANGED <<helper, hargs, path_kind, proc, signals, disk_text, coalesce_vars,
                   parse_vars, follow_vars>>

\* a helper is left by an exception of the file system or of a subprocess,
\* raised before its _emit_status call
HelperRaises ==
    /\ hpc = "call"
    /\ helper \in (SimpleHelpers \ TextHelpers) \cup GitHelpers
                    \cup {"glob_files", "batch", "delete_lines"}
    /\ result' = "OSError"
    /\ hpc' = "raised"
    /\ UNCHANGED <<helper, hargs, events, path_kind, proc, signals, disk_text, coalesce_vars,
                   parse_vars, follow_vars>>

\* lines 93-107: rm(path, recursive)
Rm ==
    /\ hpc = "call" /\ helper = "rm"
    /\ IF path_kind = "dir"
       THEN IF hargs.recursive
            THEN /\ path_kind' = "missing"
                 /\ events' = emit_status(events, helper, "rm", None)
            ELSE /\ UNCHANGED path_kind
                 /\ events' = emit_status(events, helper, "rm", "directory, use recursive=True")
       ELSE IF path_kind = "file"
            THEN /\ path_kind' = "missing"
                 /\ events' = emit_status(events, helper, "rm", None)
            ELSE /\ UNCHANGED path_kind
                 /\ events' = emit_status(events, helper, "rm", "missing")
    /\ result' = None
    /\ hpc' = "returned"
    /\ UNCHANGED <<helper, hargs, proc, signals, disk_text, coalesce_vars, parse_vars, follow_vars>>

\* lines 553-568: glob_files(pattern, path, hidden)
GlobFiles ==
    /\ hpc = "call" /\ helper = "glob_files"
    /\ events' = emit_status(events, helper, status_op(helper), None)
    /\ result' = "value"
    /\ hpc' = "returned"
    /\ UNCHANGED <<helper, hargs, path_kind, proc, signals, disk_text, coalesce_vars,
                   parse_vars, follow_vars>>

\* lines 571-578: batch(paths, fn); fn is a function that emits nothing, or
\* the helper read
Batch ==
    /\ hpc = "call" /\ helper = "batch"
    /\ \E inner \in {<<>>, emit_status(<<>>, "read", "read", None)} :
          events' = emit_status(events \o inner, helper, "batch", None)
    /\ result' = "value"
    /\ hpc' = "returned"
    /\ UNCHANGED <<helper, hargs, path_kind, proc, signals, disk_text, coalesce_vars,
                   parse_vars, follow_vars>>

\* lines 703-864: a git helper, git ending with exit code 0 or not
GitHelper ==
    /\ hpc = "call" /\ helper \in GitHelpers
    /\ \E code \in {0, 128} :
          IF code # 0
          THEN /\ events' = emit_status(events, helper, status_op(helper),
                                        IF helper = "git_branch" THEN "failed to list branches"
                                        ELSE "fatal")
               /\ result' = "empty"
          ELSE /\ events' = emit_status(events, helper, status_op(helper), None)
               /\ result' = "value"
    /\ hpc' = "returned"
    /\ UNCHANGED <<helper, hargs, path_kind, proc, signals, disk_text, coalesce_vars,
                   parse_vars, follow_vars>>

\* text.splitlines(), for texts whose only line boundary is "\n"
py_splitlines(text) ==
    IF text = "" THEN <<>>
    ELSE IF SubSeq(text, Len(text), Len(text)) = "\n"
    THEN py_split(SubSeq(text, 1, Len(text) - 1))
    ELSE py_split(text)

\* ls[start:]
py_slice_from(ls, start) ==
    LET lo == IF start < 0
              THEN (IF Len(ls) + start < 0 THEN 0 ELSE Len(ls) + start)
              ELSE (IF start > Len(ls) THEN Len(ls) ELSE start)
    IN  SubSeq(ls, lo + 1, Len(ls))

\* lines 321-322: text.splitlines()[-n:], joined by "\n"
tail(text, n) == join_lines(py_slice_from(py_splitlines(text), -n))

\* lines 319-324: tail(text, n)
Tail_ ==
    /\ hpc = "call" /\ helper = "tail"
    /\ events' = emit_status(events, helper, "tail", None)
    /\ result' = tail(hargs.text, hargs.n)
    /\ hpc' = "returned"
    /\ UNCHANGED <<helper, hargs, path_kind, proc, signals, disk_text, coalesce_vars,
                   parse_vars, follow_vars>>

\* ls[:stop]
py_slice_to(ls, stop) ==
    LET hi == IF stop < 0
              THEN (IF Len(ls) + stop < 0 THEN 0 ELSE Len(ls) + stop)
              ELSE (IF stop > Len(ls) THEN Len(ls) ELSE stop)
    IN  SubSeq(ls, 1, hi)

\* max(a, b), min(a, b)
py_max(a, b) == IF a >= b THEN a ELSE b
py_min(a, b) == IF a <= b THEN a ELSE b

\* lines 650-651: "if end is None: end = start"
delete_end(start, end) == IF end = <<>> THEN start ELSE end[1]

\* lines 652-654: count = end - start + 1, start and end clamped
delete_count(all_lines, start, end) ==
    py_min(Len(all_lines), delete_end(start, end)) - py_max(1, start) + 1

\* line 655: new_lines = all_lines[: start - 1] + all_lines[end:], start and end clamped
delete_new_lines(all_lines, start, end) ==
    py_slice_to(all_lines, py_max(1, start) - 1)
        \o py_slice_from(all_lines, py_min(Len(all_lines), delete_end(start, end)))

\* line 656: the text written, "\n".join(new_lines) + ("\n" if all_lines else "")
delete_written(all_lines, new_lines) ==
    join_lines(new_lines) \o (IF all_lines # <<>> THEN "\n" ELSE "")

\* lines 644-658: delete_lines(path, start, end), the file being there
DeleteLines ==
    /\ hpc = "call" /\ helper = "delete_lines"
    /\ \E all_lines \in {py_splitlines(disk_text)} :
           /\ disk_text' = delete_written(all_lines,
                                          delete_new_lines(all_lines, hargs.start, hargs.end))
           /\ result' = delete_count(all_lines, hargs.start, hargs.end)
    /\ events' = emit_status(events, helper, "delete_lines", None)
    /\ hpc' = "returned"
    /\ UNCHANGED <<helper, hargs, path_kind, proc, signals, coalesce_vars, parse_vars,
                   follow_vars>>

SIGINT == 2
SIGKILL == 9

\* ShellResult(stdout, stderr, code)
ShellResult(out, err, code) == [stdout |-> out, stderr |-> err, code |-> code]

\* lines 354-358: _make_shell_result, called for helper h
make_shell_result(evs, h) == emit_status(evs, h, status_op(h), None)

\* lines 409-419 of sh: no shell is found: on Windows the command is run by
\* subprocess.run, which returns, or raises TimeoutExpired when a timeout
\* was given, or is left by a KeyboardInterrupt; elsewhere RuntimeError
ShWithoutShell ==
    /\ hpc = "call" /\ helper = "sh" /\ hargs.shell # "found"
    /\ IF hargs.shell = "none, win32"
       THEN \/ /\ events' = make_shell_result(events, helper)
               /\ result' = ShellResult("", "", 0)
               /\ hpc' = "returned"
            \/ /\ hargs.timeout # None
               /\ result' = "TimeoutExpired"
               /\ hpc' = "raised"
               /\ UNCHANGED events
            \/ /\ result' = "KeyboardInterrupt"
               /\ hpc' = "raised"
               /\ UNCHANGED events
       ELSE /\ result' = "RuntimeError"
            /\ hpc' = "raised"
            /\ UNCHANGED events
    /\ UNCHANGED <<helper, hargs, path_kind, proc, signals, disk_text, coalesce_vars,
                   parse_vars, follow_vars>>

\* lines 364-371: subprocess.Popen(..., start_new_session=True)
Popen ==
    /\ hpc = "call" /\ helper \in ShellHelpers /\ hargs.shell = "found"
    /\ proc' = [state |-> "running", out |-> "", code |-> 0]
    /\ hpc' = "communicate"
    /\ UNCHANGED <<helper, hargs, events, result, path_kind, signals, disk_text,
                   coalesce_vars, parse_vars, follow_vars>>

\* the child writes to its stdout
ChildWrites ==
    /\ proc.state = "running" /\ proc.out = ""
    /\ proc' = [proc EXCEPT !.out = "out\n"]
    /\ UNCHANGED <<helper, hargs, hpc, events, result, path_kind, signals, disk_text,
                   coalesce_vars, parse_vars, follow_vars>>

\* the child ends by itself, or because of a SIGINT it got
ChildExits ==
    /\ proc.state = "running"
    /\ \E code \in {0, 1} : proc' = [proc EXCEPT !.state = "exited", !.code = code]
    /\ UNCHANGED <<helper, hargs, hpc, events, result, path_kind, signals, disk_text,
                   coalesce_vars, parse_vars, follow_vars>>

\* lines 372 and 388-389: communicate returns, the child having ended
CommunicateReturns ==
    /\ hpc = "communicate" /\ proc.state = "exited"
    /\ events' = make_shell_result(events, helper)
    /\ result' = ShellResult(proc.out, "", proc.code)
    /\ hpc' = "returned"
    /\ UNCHANGED <<helper, hargs, path_kind, proc, signals, disk_text, coalesce_vars,
                   parse_vars, follow_vars>>

\* lines 383-384: communicate(timeout) raises TimeoutExpired and the process
\* group is killed
CommunicateTimesOut ==
    /\ hpc = "communicate" /\ proc.state = "running" /\ hargs.timeout # None
    /\ signals' = Append(signals, SIGKILL)
    /\ proc' = [proc EXCEPT !.state = "exited", !.code = -SIGKILL]
    /\ result' = -SIGKILL
    /\ hpc' = "reap"
    /\ UNCHANGED <<helper, hargs, events, path_kind, disk_text, coalesce_vars, parse_vars, follow_vars>>

\* lines 373-374: KeyboardInterrupt in communicate: SIGINT to the process group
CommunicateInterrupted ==
    /\ hpc = "communicate"
    /\ signals' = Append(signals, SIGINT)
    /\ result' = -SIGINT
    /\ hpc' = "grace"
    /\ UNCHANGED <<helper, hargs, events, path_kind, proc, disk_text, coalesce_vars,
                   parse_vars, follow_vars>>

\* lines 375-376 and 381-382: the child ended within the 2 s after SIGINT
GraceReturns ==
    /\ hpc = "grace" /\ proc.state = "exited"
    /\ events' = make_shell_result(events, helper)
    /\ result' = ShellResult(proc.out, "", -SIGINT)
    /\ hpc' = "returned"
    /\ UNCHANGED <<helper, hargs, path_kind, proc, signals, disk_text, coalesce_vars,
                   parse_vars, follow_vars>>

\* lines 377-378: the 2 s are over and the process group is killed
GraceTimesOut ==
    /\ hpc = "grace" /\ proc.state = "running"
    /\ signals' = Append(signals, SIGKILL)
    /\ proc' = [proc EXCEPT !.state = "exited", !.code = -SIGKILL]
    /\ hpc' = "reap"
    /\ UNCHANGED <<helper, hargs, events, result, path_kind, disk_text, coalesce_vars,
                   parse_vars, follow_vars>>

\* lines 379-382 and 385-387: communicate() after the kill returns; the exit
\* code reported is the one of the handler, kept in result
ReapReturns ==
    /\ hpc = "reap"
    /\ events' = make_shell_result(events, helper)
    /\ result' = ShellResult(proc.out, "", result)
    /\ hpc' = "returned"
    /\ UNCHANGED <<helper, hargs, path_kind, proc, signals, disk_text, coalesce_vars,
                   parse_vars, follow_vars>>

\* a KeyboardInterrupt inside one of the two handlers (lines 376, 379, 385)
\* is caught by nothing
HandlerInterrupted ==
    /\ hpc \in {"grace", "reap"}
    /\ result' = "KeyboardInterrupt"
    /\ hpc' = "raised"
    /\ UNCHANGED <<helper, hargs, events, path_kind, proc, signals, disk_text, coalesce_vars,
                   parse_vars, follow_vars>>

(* Inputs of the prelude helpers *)

MaxTailLines == 3

MaxN == 3

TailLineTexts == {"a", "b", ""}

TailTexts ==
    { join_lines(ls) \o end :
        ls \in UNION {[1..k -> TailLineTexts] : k \in 0..MaxTailLines}, end \in {"", "\n"} }

MaxLineNo == 4

\* the line numbers given to delete_lines: from below 1 to beyond the last line
LineNos == (0 - 1)..MaxLineNo

ArgsOf(h) ==
    IF h = "tail"
    THEN {[NoArgs EXCEPT !.text = t, !.n = n] : t \in TailTexts, n \in 0..MaxN}
    ELSE IF h = "delete_lines"
    THEN {[NoArgs EXCEPT !.text = t, !.start = st, !.end = en] :
             t \in TailTexts, st \in LineNos, en \in {<<>>} \cup {<<e>> : e \in LineNos}}
    ELSE IF h = "rm" THEN {[NoArgs EXCEPT !.recursive = r] : r \in BOOLEAN}
    ELSE IF h = "run" THEN {[NoArgs EXCEPT !.timeout = t] : t \in {None, "1"}}
    ELSE IF h = "sh"
    THEN {[NoArgs EXCEPT !.timeout = t, !.shell = sh] :
             t \in {None, "1"}, sh \in {"found", "none, win32", "none, posix"}}
    ELSE {NoArgs}

\* a public helper is called
InitPrelude ==
    /\ helper \in PublicHelpers
    /\ hargs \in ArgsOf(helper)
    /\ hpc = "call"
    /\ events = <<>>
    /\ result = None
    /\ path_kind \in (IF helper = "rm" THEN {"dir", "file", "missing"} ELSE {"missing"})
    /\ proc = NoProc
    /\ signals = <<>>
    /\ disk_text = (IF helper = "delete_lines" THEN hargs.text ELSE "")
    /\ entries = <<>> /\ verbose = FALSE /\ idx = 0 /\ output = <<>> /\ text_buffer = ""
    /\ text_ts = 0 /\ pc = "idle" /\ flushes = <<>>
    /\ ParseIdle
    /\ FollowIdle

NextPrelude ==
    \/ SimpleReturns \/ HelperRaises \/ Rm \/ GlobFiles \/ Batch \/ GitHelper \/ Tail_
    \/ DeleteLines
    \/ ShWithoutShell \/ Popen \/ ChildWrites \/ ChildExits \/ CommunicateReturns
    \/ CommunicateTimesOut \/ CommunicateInterrupted \/ GraceReturns \/ GraceTimesOut
    \/ ReapReturns \/ HandlerInterrupted

SpecPrelude == InitPrelude /\ [][NextPrelude]_vars

----------------------------------------------------------------------------
(* The record classes and the lines the properties speak of *)

IsFragment(e) ==
    Get(e, "type", "") = "interactionUpdate" /\ Get(e, "subtype", "") = "textDelta"

FragmentText(e) ==
    IF IsFragment(e) /\ Truthy(extract_text_delta(e)) THEN extract_text_delta(e) ELSE ""

IsStructuralNoise(e) ==
    <<Get(e, "type", ""), Get(e, "subtype", "")>> \in
        { <<"serverMessage", "interactionUpdate">>, <<"serverMessage", "kvServerMessage">>,
          <<"serverMessage", "conversationCheckpointUpdate">>,
          <<"execClient", "requestContextResult">> }
    \/ Get(e, "type", "") = "kvClient"

SkipSet == {"tokenDelta", "partialToolCall", "heartbeat", "thinkingDelta"}

IsDirectSkip(e) ==
    Get(e, "type", "") = "interactionUpdate" /\ Get(e, "subtype", "") \in SkipSet

IsWrapped(e) == Get(e, "type", "") = "info" /\ Get(e, "subtype", "") = "interactionUpdate"

UpdateCase(e) ==
    IF "data" \in DOMAIN e /\ IsDict(e.data) THEN Get(e.data, "updateCase", None) ELSE None

IsWrappedSkip(e) == IsWrapped(e) /\ UpdateCase(e) \in SkipSet

\* dropped as noise: only outside verbose mode
IsDropped(e, v) == ~v /\ (IsStructuralNoise(e) \/ IsDirectSkip(e) \/ IsWrappedSkip(e))

\* rendered as a line of its own
IsRendered(e, v) == ~IsFragment(e) /\ ~IsDropped(e, v)

\* "[HH:MM:SS.mmm] text: ..." : the line of a flushed run
IsTextLine(l) == Len(l) >= 21 /\ SubSeq(l, 14, 21) = "] text: "

TextLinesOf(out) == SelectSeq(out, IsTextLine)

ExpectedTextLine(ts, text) ==
    LET esc == escape_newlines(text)
    IN  "[" \o strftime_ms(ts) \o "] text: "
            \o (IF Len(esc) > 300 THEN SubSeq(esc, 1, 300) \o "..." ELSE esc)

MinOf(S) == CHOOSE m \in S : \A k \in S : m <= k

RECURSIVE SortedSeq(_)
SortedSeq(S) == IF S = {} THEN <<>> ELSE <<MinOf(S)>> \o SortedSeq(S \ {MinOf(S)})

RECURSIVE ConcatTexts(_, _)
ConcatTexts(es, I) ==
    IF I = {} THEN "" ELSE FragmentText(es[MinOf(I)]) \o ConcatTexts(es, I \ {MinOf(I)})

\* With brk the positions of the records that end a run: the end of the run
\* that starts after position b, the fragments with text in it, and its line.
RunEnd(es, brk, b) == MinOf({i \in brk : i > b} \cup {Len(es) + 1})

RunFragments(es, brk, b) ==
    {i \in (b + 1)..(RunEnd(es, brk, b) - 1) : FragmentText(es[i]) # ""}

RunLine(es, brk, b) ==
    IF RunFragments(es, brk, b) = {} THEN <<>>
    ELSE <<ExpectedTextLine(Get(es[MinOf(RunFragments(es, brk, b))], "ts", 0),
                            ConcatTexts(es, RunFragments(es, brk, b)))>>

RECURSIVE FlattenSeq(_)
FlattenSeq(ss) == IF ss = <<>> THEN <<>> ELSE Head(ss) \o FlattenSeq(Tail(ss))

\* one line per run, the runs being ended by the records at brk
RunLines(es, brk) ==
    LET starts == SortedSeq({0} \cup brk)
    IN  FlattenSeq([k \in 1..Len(starts) |-> RunLine(es, brk, starts[k])])

RenderedAt(es, v) == {i \in 1..Len(es) : IsRendered(es[i], v)}

NonFragmentAt(es) == {i \in 1..Len(es) : ~IsFragment(es[i])}

AtRecord == pc = "loop" /\ idx <= Len(entries)

AtEnd == pc = "loop" /\ idx > Len(entries)

\* the record the last step of the loop passed over
Passed(P(_)) == pc = "loop" /\ idx > 1 /\ P(entries[idx - 1])

----------------------------------------------------------------------------
(* C1 *)

\* C1, as stated: every maximal run of consecutive textDelta records gives
\* exactly one text line (first fragment's timestamp, texts concatenated), any
\* record that is not a textDelta ending the run, in both modes.
C1_EveryConsecutiveRunIsOneLine ==
    pc = "done" => TextLinesOf(output) = RunLines(entries, NonFragmentAt(entries))

\* C1, amended: the runs are ended only by the records that are rendered (in
\* non-verbose mode a record dropped as noise does not end a run, in verbose
\* mode every record that is not a textDelta does). Each run with text gives
\* exactly one text line, with the clock time of the ts of its first fragment
\* with text and the concatenation of the texts, newlines escaped, cut to 300
\* characters and "..." when longer.
C1_RunsBetweenRenderedRecords ==
    pc = "done" =>
        /\ TextLinesOf(output) = RunLines(entries, RenderedAt(entries, verbose))
        /\ (verbose => TextLinesOf(output) = RunLines(entries, NonFragmentAt(entries)))
        /\ (entries = <<TextNested, TextA>> => output = <<"[00:00:00.000] text: c\\ndA">>)
        /\ (entries = <<TextA, TextEmpty, TextB>> => output = <<"[00:00:01.000] text: AB">>)
        /\ (entries = <<TextDelta(Long150, 1000), TextDelta(Long150, 2000), TextA>>
              => output = <<"[00:00:01.000] text: " \o Long150 \o Long150 \o "...">>)

\* a run of two fragments was coalesced across a dropped record, and a run was cut
C1_Witness ==
    /\ pc = "done" /\ ~verbose
    /\ \E i \in 1..(Len(entries) - 2) :
          /\ FragmentText(entries[i]) # ""
          /\ IsDropped(entries[i + 1], verbose)
          /\ FragmentText(entries[i + 2]) # ""
    /\ \E k \in 1..Len(output) : IsTextLine(output[k]) /\ Len(output[k]) > 300

----------------------------------------------------------------------------
(* C2 *)

\* C2: in non-verbose mode the pass of the loop over an interactionUpdate
\* record with subtype tokenDelta, partialToolCall, heartbeat or thinkingDelta
\* adds no line to output and leaves text_buffer and text_ts as they were.
C2_SkipDeltaKeepsAccumulator ==
    [][ (AtRecord /\ ~verbose /\ IsDirectSkip(entries[idx]))
          => (output' = output /\ text_buffer' = text_buffer /\ text_ts' = text_ts) ]_vars

C2_Witness == ~verbose /\ Passed(IsDirectSkip) /\ text_buffer # "" /\ output # <<>>

----------------------------------------------------------------------------
(* C3 *)

OnlyFragmentsAndStructuralNoise(es) ==
    \A i \in 1..Len(es) : IsFragment(es[i]) \/ IsStructuralNoise(es[i])

\* C3: in non-verbose mode the pass of the loop over a record of a
\* structural-noise pair adds no line and leaves the accumulator unchanged;
\* fragments separated only by such records end as one text line; the stream
\* textDelta "A", kvClient, textDelta "B", info:builtRunRequest gives the two
\* lines "text: AB" and the info line.
C3_StructuralNoiseKeepsAccumulator ==
    /\ [][ (AtRecord /\ ~verbose /\ IsStructuralNoise(entries[idx]))
             => (output' = output /\ text_buffer' = text_buffer /\ text_ts' = text_ts) ]_vars
    /\ [](pc = "done" /\ ~verbose =>
            /\ (OnlyFragmentsAndStructuralNoise(entries) =>
                    output = RunLines(entries, {}) /\ Len(output) <= 1)
            /\ (entries = <<TextA, KvClient, TextB, BuiltRun>> =>
                    output = << "[00:00:01.000] text: AB",
                                "[00:00:02.000] info:builtRunRequest tools=3" >>))

C3_Witness ==
    /\ pc = "done" /\ ~verbose
    /\ Len(entries) = 3 /\ FragmentText(entries[1]) # "" /\ FragmentText(entries[3]) # ""
    /\ IsStructuralNoise(entries[2]) /\ Get(entries[2], "type", "") = "execClient"
    /\ Len(output) = 1

----------------------------------------------------------------------------
(* C4 *)

\* what a flush followed by one line of the record does to output
FlushedThenOneLine ==
    /\ Len(output') = Len(output) + (IF text_buffer = "" THEN 1 ELSE 2)
    /\ SubSeq(output', 1, Len(output)) = output
    /\ (text_buffer # "" =>
            output'[Len(output) + 1] = ExpectedTextLine(text_ts, text_buffer))
    /\ ~IsTextLine(output'[Len(output')])
    /\ text_buffer' = "" /\ text_ts' = 0

\* C4: in verbose mode the pass of the loop over any record that is not a
\* textDelta, the noise pairs and the skip deltas included, flushes the pending
\* text and then adds exactly one line for the record.
C4_VerboseRendersEveryRecord ==
    [][ (AtRecord /\ verbose /\ ~IsFragment(entries[idx])) => FlushedThenOneLine ]_vars

C4_Witness ==
    /\ verbose /\ pc = "loop" /\ idx = 4
    /\ FragmentText(entries[1]) # ""
    /\ IsStructuralNoise(entries[2]) /\ IsDirectSkip(entries[3])
    /\ Len(output) = 3

----------------------------------------------------------------------------
(* C5 *)

\* C5, as stated: the pass of the loop over a skip delta adds no line to
\* output, whether verbose is true or false.
C5_SkipDeltaDroppedInBothModes ==
    [][ (AtRecord /\ IsDirectSkip(entries[idx])) => output' = output ]_vars

LinePrefix(e) == "[" \o strftime_ms(e.ts) \o "] interactionUpdate:" \o e.subtype

StartsWith(l, pre) == Len(l) >= Len(pre) /\ SubSeq(l, 1, Len(pre)) = pre

\* C5, amended: a skip delta is dropped in non-verbose mode only; in verbose
\* mode format_entry gives it a line, "[time] interactionUpdate:<subtype>...",
\* which the pass of the loop adds to output.
C5_SkipDeltaDroppedUnlessVerbose ==
    [][ (AtRecord /\ IsDirectSkip(entries[idx])) =>
          IF verbose
          THEN /\ Len(output') > Len(output)
               /\ StartsWith(output'[Len(output')], LinePrefix(entries[idx]))
               /\ format_entry(entries[idx], verbose) = output'[Len(output')]
          ELSE output' = output /\ format_entry(entries[idx], verbose) = None ]_vars

C5_Witness ==
    /\ verbose /\ Passed(IsDirectSkip) /\ Len(output) = 1
    /\ entries[idx - 1].subtype = "thinkingDelta"

----------------------------------------------------------------------------
(* C6 *)

\* the accumulator is flushed: it is reset, and its content, when there is
\* any, is the one text line added, ahead of anything else added
FlushEffect ==
    /\ text_buffer' = "" /\ text_ts' = 0
    /\ Len(output') >= Len(output)
    /\ SubSeq(output', 1, Len(output)) = output
    /\ LET new == SubSeq(output', Len(output) + 1, Len(output'))
       IN  IF text_buffer = "" THEN TextLinesOf(new) = <<>>
           ELSE /\ TextLinesOf(new) = <<ExpectedTextLine(text_ts, text_buffer)>>
                /\ new[1] = ExpectedTextLine(text_ts, text_buffer)

\* C6, as stated: the accumulator is flushed at every record that is not a
\* fragment, and at the end of the stream; a flush of the empty buffer adds
\* no line.
C6_FlushAtEveryNonFragment ==
    [][ /\ (AtRecord /\ ~IsFragment(entries[idx])) => FlushEffect
        /\ AtEnd => (FlushEffect /\ pc' = "done") ]_vars

\* C6, amended: the accumulator is flushed at every record that is rendered
\* (not a fragment and not dropped as noise) and at the end of the stream; a
\* record dropped as noise and a fragment leave output alone and flush
\* nothing; a flush of the empty buffer adds no line; after the return the
\* buffer is empty.
C6_FlushAtEveryRenderedRecord ==
    /\ [][ /\ (AtRecord /\ IsRendered(entries[idx], verbose)) => FlushEffect
           /\ (AtRecord /\ ~IsRendered(entries[idx], verbose)) =>
                 /\ output' = output
                 /\ text_buffer' = text_buffer \o FragmentText(entries[idx])
           /\ AtEnd => (FlushEffect /\ pc' = "done") ]_vars
    /\ [](pc = "done" => text_buffer = "" /\ text_ts = 0)

\* a flush with text at a rendered record, then a flush of the empty buffer
\* at the next one, then the end of the stream
C6_Witness ==
    /\ pc = "done" /\ Len(entries) = 3
    /\ FragmentText(entries[1]) # ""
    /\ IsRendered(entries[2], verbose) /\ IsRendered(entries[3], verbose)
    /\ Len(output) = 3

----------------------------------------------------------------------------
(* C7 *)

\* C7: in non-verbose mode the pass of the loop over an info:interactionUpdate
\* record whose data.updateCase is a skip delta does what it does over the
\* direct record: no line, accumulator unchanged; over one whose updateCase is
\* not a skip delta it flushes and adds the record's line,
\* "[time] info:interactionUpdate <updateCase>".
C7_WrappedUpdates ==
    [][ (AtRecord /\ ~verbose /\ IsWrapped(entries[idx])) =>
          IF UpdateCase(entries[idx]) \in SkipSet
          THEN output' = output /\ text_buffer' = text_buffer /\ text_ts' = text_ts
          ELSE /\ FlushedThenOneLine
               /\ StartsWith(output'[Len(output')],
                             "[" \o strftime_ms(entries[idx].ts) \o "] info:interactionUpdate")
               /\ (entries[idx] = WrappedText =>
                     output'[Len(output')] = "[01:02:03.004] info:interactionUpdate textDelta") ]_vars

C7_Witness ==
    /\ ~verbose /\ pc = "loop" /\ idx = 4
    /\ FragmentText(entries[1]) # ""
    /\ IsWrappedSkip(entries[2])
    /\ entries[3] = WrappedText
    /\ Len(output) = 2

----------------------------------------------------------------------------
(* C8 *)

\* the lines of the records of es: for each run its text line, then the line
\* of the rendered record that ends it
RunThenRecord(es, v, b) ==
    RunLine(es, RenderedAt(es, v), b)
        \o (IF RunEnd(es, RenderedAt(es, v), b) <= Len(es)
            THEN <<format_entry(es[RunEnd(es, RenderedAt(es, v), b)], v)>> ELSE <<>>)

LinesInInputOrder(es, v) ==
    LET starts == SortedSeq({0} \cup RenderedAt(es, v))
    IN  FlattenSeq([k \in 1..Len(starts) |-> RunThenRecord(es, v, starts[k])])

\* C8: the output follows the input. In every state the lines emitted so far,
\* followed by the line of the pending text, are the lines of the records
\* passed so far in input order: the line of each rendered record in the order
\* of the records, the text line of a run after the lines of the rendered
\* records before its first fragment and before the line of the rendered
\* record that follows it.
C8_OutputInInputOrder ==
    pc \in {"loop", "done"} =>
        (IF text_buffer = "" THEN output
         ELSE Append(output, ExpectedTextLine(text_ts, text_buffer)))
            = LinesInInputOrder(SubSeq(entries, 1, idx - 1), verbose)

\* a text line between the lines of two records
C8_Witness ==
    /\ pc = "done" /\ Len(output) = 3
    /\ ~IsTextLine(output[1]) /\ IsTextLine(output[2]) /\ ~IsTextLine(output[3])

----------------------------------------------------------------------------
(* The lines of a file *)

\* The lines of a text file: the pieces between the newlines, the newline
\* that ends the last line starting no further line.
RawLines(text) ==
    IF text = "" THEN <<>>
    ELSE IF SubSeq(text, Len(text), Len(text)) = "\n"
    THEN py_split(SubSeq(text, 1, Len(text) - 1))
    ELSE py_split(text)

IsBlankLine(l) == \A i \in 1..Len(l) : SubSeq(l, i, i) \in {" ", "\t", "\r", "\n"}

ParsesAsJson(l) == ~IsDecodeError(json_loads(l))

\* the records of the lines that parse, in order
RecordsOf(ls) ==
    LET ok == SelectSeq(ls, ParsesAsJson) IN [k \in 1..Len(ok) |-> json_loads(ok[k])]

Malformed(l) == ~IsBlankLine(l) /\ ~ParsesAsJson(l)

MalformedOf(ls) == SelectSeq(ls, Malformed)

\* msg reports line l: the tag, then at most 100 characters from the start of
\* the line (taken with or without the white space around it)
Reports(msg, l) ==
    \E shown \in {l, py_lstrip(l), py_rstrip(l), py_strip(l)} :
        msg = "[PARSE ERROR] " \o (IF Len(shown) > 100 THEN SubSeq(shown, 1, 100) ELSE shown)

\* the last n of ls when n > 0 and ls is longer than n, else all of ls
FinalLines(ls, n) == IF n > 0 /\ Len(ls) > n THEN SubSeq(ls, Len(ls) - n + 1, Len(ls)) ELSE ls

RECURSIVE DropLeadingBlank(_)
DropLeadingBlank(ls) ==
    IF ls # <<>> /\ IsBlankLine(Head(ls)) THEN DropLeadingBlank(Tail(ls)) ELSE ls

RECURSIVE DropTrailingBlank(_)
DropTrailingBlank(ls) ==
    IF ls # <<>> /\ IsBlankLine(ls[Len(ls)])
    THEN DropTrailingBlank(SubSeq(ls, 1, Len(ls) - 1)) ELSE ls

\* the lines of the file from its first to its last line that is not blank
InnerLines(text) == DropTrailingBlank(DropLeadingBlank(RawLines(text)))

----------------------------------------------------------------------------
(* C9 *)

\* C9: a malformed line does not abort parse_entries. At the return the list
\* holds exactly the records of the lines (of the whole file when last is 0,
\* of the lines kept otherwise) that parse as JSON, in file order; each line
\* that is not blank and does not parse is reported once, in order, with at
\* most 100 characters of it, and skipped; "{not json" followed by a valid
\* line gives one record and one error.
C9_MalformedLineSkipped ==
    ppc = "done" =>
        /\ parsed = RecordsOf(lines)
        /\ Len(stderr) = Len(MalformedOf(lines))
        /\ \A k \in 1..Len(stderr) :
              /\ Reports(stderr[k], MalformedOf(lines)[k])
              /\ Len(stderr[k]) <= Len("[PARSE ERROR] ") + 100
        /\ (last <= 0 =>
              /\ parsed = RecordsOf(RawLines(file_text))
              /\ Len(stderr) = Len(MalformedOf(RawLines(file_text)))
              /\ \A k \in 1..Len(stderr) :
                    Reports(stderr[k], MalformedOf(RawLines(file_text))[k]))
        /\ (file_text = "{not json\n{\"ts\": 1}\n" /\ last # 1 =>
              parsed = <<[ts |-> 1]>> /\ stderr = <<"[PARSE ERROR] {not json">>)

\* a malformed line longer than 100 characters, reported, with records parsed
\* before and after it
C9_Witness ==
    /\ ppc = "done" /\ last = 0
    /\ \E i \in 1..Len(lines) :
          /\ Malformed(lines[i]) /\ Len(lines[i]) > 100
          /\ \E j \in 1..(i - 1) : ParsesAsJson(lines[j])
          /\ \E j \in (i + 1)..Len(lines) : ParsesAsJson(lines[j])
    /\ Len(parsed) = 3 /\ Len(stderr) = 2

----------------------------------------------------------------------------
(* C10 *)

\* C10, as stated: with last = N > 0 the records returned are those of the
\* final N raw lines of the file, blank lines counting toward N; with N = 0,
\* or a file of N or fewer lines, those of every line.
C10_FinalRawLines ==
    ppc = "done" => parsed = RecordsOf(FinalLines(RawLines(file_text), last))

\* C10, amended: the truncation is applied, before parsing, to the lines of
\* the file text with the white space at its two ends stripped: the lines
\* from the first to the last line that is not blank. With last = N > 0 and
\* more than N such lines the records returned are those of the final N of
\* them (blank lines among them and malformed lines count toward N, blank
\* lines at the end of the file do not); otherwise those of every line. On a
\* file of 5 lines, last = 2 parses lines 4 and 5 only.
C10_FinalLinesOfStrippedText ==
    /\ ppc \in {"loop", "done"} =>
          Len(lines) = IF last > 0 /\ Len(InnerLines(file_text)) > last THEN last
                       ELSE IF InnerLines(file_text) = <<>> THEN 1
                       ELSE Len(InnerLines(file_text))
    /\ ppc = "done" =>
          /\ parsed = RecordsOf(FinalLines(InnerLines(file_text), last))
          /\ Len(stderr) = Len(MalformedOf(FinalLines(InnerLines(file_text), last)))
          /\ (file_text \in { join_lines(<<Doc1, Doc2, Doc3, Doc4, Doc5>>) \o end
                                : end \in {"", "\n"} } /\ last = 2
                => parsed = <<[ts |-> 4], [ts |-> 5]>>)

\* last = 2 on a file whose lines 3 and 4 are a malformed and a blank line,
\* with a blank line at its end: the record of line 3 is not returned
C10_Witness ==
    /\ ppc = "done" /\ last = 2
    /\ Len(RawLines(file_text)) = 4
    /\ ParsesAsJson(RawLines(file_text)[1])
    /\ Malformed(RawLines(file_text)[2])
    /\ ParsesAsJson(RawLines(file_text)[3])
    /\ IsBlankLine(RawLines(file_text)[4])
    /\ Len(parsed) = 1 /\ Len(stderr) = 1

----------------------------------------------------------------------------
(* Follow source: what the properties speak of *)

RECURSIVE ConcatStrings(_)
ConcatStrings(ss) == IF ss = <<>> THEN "" ELSE Head(ss) \o ConcatStrings(Tail(ss))

IsSuffix(s, t) == Len(s) <= Len(t) /\ SubSeq(t, Len(t) - Len(s) + 1, Len(t)) = s

\* the file of InitialLogs that holds records before the viewer starts, its
\* first record, and the line that record is rendered as
OldRecord == [ts |-> 2]
OldRecordLine == "[00:00:00.002] ?"

Following == fpc \in {"readline", "emit"}

----------------------------------------------------------------------------
\* C11: follow mode starts from the end of the file as it is when the file
\* is opened, for every value of --last: what f.readline() has returned is,
\* piece by piece, the text of the file from that end to the position of f;
\* the records buffered are the last of the records of these pieces and of
\* nothing else; a record that was in the file before is never buffered and
\* its line never printed.
C11_FollowStartsAtEndOfFile ==
    Following =>
        /\ open_len <= f_pos /\ f_pos <= Len(log_text)
        /\ ConcatStrings(reads) = SubSeq(log_text, open_len + 1, f_pos)
        /\ IsSuffix(buffer, RecordsOf(reads))
        /\ \A k \in 1..Len(buffer) : buffer[k] # OldRecord
        /\ \A k \in 1..Len(stdout) : stdout[k] # OldRecordLine

\* with --last 3 and a file that held two records, the viewer has printed
\* the line of a record appended later, and only that
C11_Witness ==
    /\ Following /\ last = MaxLast /\ open_len > 0
    /\ SubSeq(log_text, 1, open_len) = Doc2 \o "\n" \o LineTextA \o "\n"
    /\ reads = <<LineBuiltRun \o "\n">>
    /\ stdout = <<"[00:00:02.000] info:builtRunRequest tools=3">>

----------------------------------------------------------------------------
\* one step of the follow loop out of its second half, as C12 tells it: the
\* buffer is emitted when, and only when, it is not empty and either the half
\* second is over or it holds more than 50 records; emitting prints the lines
\* of coalesce_entries over the whole buffer and empties it
EmitsWhenDue ==
    (fpc = "emit" /\ fpc' = "readline") =>
        IF buffer # <<>> /\ (interval_over \/ Len(buffer) > 50)
        THEN /\ stdout' = stdout \o coalesce_entries(buffer, verbose)
             /\ buffer' = <<>>
             /\ ~interval_over'
             /\ ~slept'
        ELSE /\ UNCHANGED <<stdout, buffer>>
             /\ slept' = (cur_line = "")

\* the buffer changes by one record appended at its end, or by being emitted
NothingDiscarded ==
    buffer' # buffer =>
        \/ Len(buffer') = Len(buffer) + 1 /\ SubSeq(buffer', 1, Len(buffer)) = buffer
        \/ buffer' = <<>> /\ stdout' = stdout \o coalesce_entries(buffer, verbose)

\* C12: in follow mode, the process and the clock running, a buffer that holds
\* records is in the end emitted: the buffer is emitted when it is not empty
\* and either more than 0.5 s passed since the last emission or it holds more
\* than 50 records, its records going through coalesce_entries and the lines
\* being printed; the loop sleeps only when no line was read; the buffer loses
\* records in no other way.
C12_BufferedRecordsArePrinted ==
    /\ [][EmitsWhenDue /\ NothingDiscarded]_vars
    /\ [](slept => cur_line = "")
    /\ (buffer # <<>>) ~> (buffer = <<>>)

\* the buffer holds 51 records and is due, the half second not being over
C12_Witness ==
    /\ fpc = "emit" /\ Len(buffer) = BUFFER_LIMIT + 1 /\ ~interval_over
    /\ Len(stdout) = 0

----------------------------------------------------------------------------
\* C13: run and sh, once a shell is found and the child is started, on a
\* timeout and on a KeyboardInterrupt alike: the process group gets a graceful
\* termination signal before it gets SIGKILL, what the child wrote is returned
\* in a ShellResult, and neither the timeout nor the interruption leaves the
\* helper as an exception.
C13_GracefulThenKill ==
    (helper \in ShellHelpers /\ hargs.shell = "found") =>
        /\ \A k \in 1..Len(signals) :
              signals[k] = SIGKILL => k > 1 /\ signals[k - 1] # SIGKILL
        /\ hpc = "returned" =>
              /\ DOMAIN result = {"stdout", "stderr", "code"}
              /\ result.stdout = proc.out
        /\ hpc = "raised" => result \notin {"TimeoutExpired", "KeyboardInterrupt"}

----------------------------------------------------------------------------
\* the events emitted by the body of the helper called (batch also shows the
\* events of the function it applies)
IsOwnEvent(e) == e.emitter = helper

OwnEvents == SelectSeq(events, IsOwnEvent)

\* C14: a call of a public helper that returns normally has emitted exactly
\* one status event of its own, whatever the path taken through the helper,
\* and the op of that event is the name of the helper called.
C14_OneEventNamedAfterHelper ==
    hpc = "returned" => Len(OwnEvents) = 1 /\ OwnEvents[1].op = helper

----------------------------------------------------------------------------
\* the last k of ls, or all of ls when it has fewer
LastOf(ls, k) == IF Len(ls) > k THEN SubSeq(ls, Len(ls) - k + 1, Len(ls)) ELSE ls

\* C17: tail(text, n), n >= 0, returns the last n lines of text joined by
\* newlines: min(n, number of lines) lines, hence the empty string for n = 0.
C17_TailReturnsLastLines ==
    (helper = "tail" /\ hpc = "returned" /\ hargs.n >= 0) =>
        /\ result = join_lines(LastOf(py_splitlines(hargs.text), hargs.n))
        /\ (hargs.n = 0 => result = "")

UnknownTime(e) == Get(e, "ts", 0) = 0

\* the kind shown on the line of a record: its type, "?" standing for a missing
\* one, then its subtype when it has one
ShownKind(e) ==
    Get(e, "type", "?") \o (IF "subtype" \in DOMAIN e THEN ":" \o e.subtype ELSE "")

\* C15: a record with fields missing is processed like any other. One without a
\* type is a signal: the pending text is flushed and exactly one line is added
\* for it, which begins "[??:??:??] ?" when its ts is missing or zero. The line
\* of a signal without data is its timestamp and kind alone.
C15_MissingFieldsDefaulted ==
    [][ AtRecord =>
          LET e == entries[idx]
          IN  /\ idx' = idx + 1
              /\ "type" \notin DOMAIN e =>
                    /\ text_buffer' = ""
                    /\ Len(output') = Len(output) + (IF text_buffer # "" THEN 2 ELSE 1)
                    /\ UnknownTime(e) => StartsWith(output'[Len(output')], "[??:??:??] ?")
              /\ (Len(output') > Len(output) /\ "data" \notin DOMAIN e /\ UnknownTime(e)) =>
                    output'[Len(output')] = "[??:??:??] " \o ShownKind(e)
      ]_vars

C15_Witness ==
    /\ pc = "done"
    /\ entries = <<SubtypeOnly, TypeOnly, NoType>>
    /\ output = <<"[??:??:??] ?:textDelta {\"text\": \"A\"}", "[??:??:??] agentClient",
                  "[??:??:??] ?">>

----------------------------------------------------------------------------
\* a line that f.readline() returned and json.loads rejects
IsMalformed(l) == l # "" /\ py_strip(l) # "" /\ IsDecodeError(json_loads(l))

\* C16: in follow mode a malformed line appended to the file is reported on
\* the error channel with its truncated preview, the line is skipped (nothing
\* is buffered for it), and reading goes on from the end of that line.
C16_FollowReportsMalformedLine ==
    [][ (fpc = "readline" /\ fpc' = "emit" /\ IsMalformed(cur_line')) =>
            /\ stderr' = Append(stderr, parse_error_message(cur_line'))
            /\ buffer' = buffer
            /\ f_pos' = f_pos + Len(cur_line')
      ]_vars

----------------------------------------------------------------------------
\* the line added for the record at idx begins "[??:??:??] " when the ts of
\* the record is missing or zero
SignalLineUnknownTime ==
    (AtRecord /\ Len(output') > Len(output) /\ UnknownTime(entries[idx])) =>
        StartsWith(output'[Len(output')], "[??:??:??] ")

\* the text line of a run whose first fragment has no ts, or ts = 0, begins
\* "[??:??:??] text: "
TextLineUnknownTime ==
    (text_buffer # "" /\ text_buffer' = "" /\ text_ts = 0) =>
        StartsWith(output'[Len(output) + 1], "[??:??:??] text: ")

\* C18: every line coalesce_entries emits shows ??:??:?? for a timestamp that
\* is absent or zero: the line of a signal, and the text line of a run whose
\* first fragment has no ts or ts = 0.
C18_UnknownTimestampOnEveryLine ==
    [][SignalLineUnknownTime /\ TextLineUnknownTime]_vars

----------------------------------------------------------------------------
\* the texts of the fragments among the first k records, in input order
TextsOfFirst(es, k) == ConcatTexts(es, {i \in 1..k : IsFragment(es[i])})

\* C19: coalesce_entries conserves text. At every point of the loop the buffers
\* flushed so far, in order, followed by the accumulator are the texts of the
\* fragments passed so far, in input order; when it returns, the accumulator is
\* empty, so the buffers flushed are the texts of all the fragments, and the
\* text lines of the output are the lines of these buffers, one each, in order.
C19_TextConserved ==
    /\ pc = "loop" =>
          ConcatStrings(flushes) \o text_buffer = TextsOfFirst(entries, idx - 1)
    /\ pc = "done" =>
          /\ text_buffer = ""
          /\ ConcatStrings(flushes) = TextsOfFirst(entries, Len(entries))
          /\ \A k \in 1..Len(flushes) : flushes[k] # ""
          /\ Len(TextLinesOf(output)) = Len(flushes)
          /\ \A k \in 1..Len(flushes) :
                SubSeq(TextLinesOf(output)[k], 22, Len(TextLinesOf(output)[k]))
                    = flushed_text(flushes[k])

\* two runs were flushed, the first longer than the cap of its line
C19_Witness ==
    /\ pc = "done"
    /\ Len(flushes) = 2
    /\ Len(flushes[1]) > TEXT_CAP
    /\ flushes[2] = "c\nd"

----------------------------------------------------------------------------
\* the records emitted so far: those of the lines read, less the ones still
\* in the buffer
Emitted == SubSeq(RecordsOf(reads), 1, Len(RecordsOf(reads)) - Len(buffer))

\* what is printed for the records rs when they are emitted in successive
\* batches, for every way of cutting rs into batches
RECURSIVE BatchOutputs(_, _)
BatchOutputs(rs, v) ==
    IF rs = <<>> THEN {<<>>}
    ELSE UNION { { coalesce_entries(SubSeq(rs, 1, k), v) \o rest :
                     rest \in BatchOutputs(SubSeq(rs, k + 1, Len(rs)), v) } :
                 k \in 1..Len(rs) }

\* an emission prints the lines of coalesce_entries over the batch alone and
\* the next batch starts empty
EmitsBatchAlone ==
    stdout' # stdout =>
        /\ stdout' = stdout \o coalesce_entries(buffer, verbose)
        /\ buffer' = <<>>

TextLineA == "[00:00:01.000] text: A"
TextLineB == "[00:00:01.002] text: B"

\* C20: in follow mode every batch is coalesced on its own. What is printed is
\* the concatenation of coalesce_entries over the successive batches; a run of
\* fragments cut by the end of a batch is printed as two text lines, and as one
\* line only when both fragments are in the same batch.
C20_BatchesCoalescedIndependently ==
    /\ [][EmitsBatchAlone]_vars
    /\ [](Len(Emitted) <= MaxAppends => stdout \in BatchOutputs(Emitted, verbose))
    /\ [](Emitted = <<TextDeltaA, TextDeltaB>> =>
            \/ stdout = <<TextLineA, TextLineB>>
            \/ stdout = <<"[00:00:01.000] text: AB">>)
    /\ []((Emitted = <<TextDeltaA>> /\ buffer = <<TextDeltaB>>) => stdout = <<TextLineA>>)

\* the run A, B was cut by the end of a batch and printed as two lines
C20_Witness ==
    /\ Emitted = <<TextDeltaA, TextDeltaB>>
    /\ buffer = <<>>
    /\ stdout = <<TextLineA, TextLineB>>

----------------------------------------------------------------------------
\* an emission empties the buffer and starts the half second anew
EmissionResets ==
    stdout' # stdout => buffer' = <<>> /\ ~interval_over'

\* C21: in follow mode the buffer is bounded. It never holds more than 51
\* records, and never more than 50 when the loop comes back to f.readline():
\* the pass in which it grows beyond 50 emits it. After every emission the
\* buffer is empty and last_emit is refreshed.
C21_FollowBufferBounded ==
    /\ [](Len(buffer) <= 51)
    /\ [](fpc = "readline" => Len(buffer) <= 50)
    /\ [][EmissionResets]_vars
    /\ [][(fpc = "emit" /\ Len(buffer) > 50 /\ fpc' # fpc) => buffer' = <<>>]_vars

\* the buffer was emitted on its 51st record, and the record that followed is
\* alone in the new buffer
C21_Witness ==
    /\ fpc = "emit"
    /\ Len(stdout) = 51
    /\ Len(buffer) = 1
    /\ ~interval_over

----------------------------------------------------------------------------
\* what the writer has appended since the file was opened
AppendedText == SubSeq(log_text, open_len + 1, Len(log_text))

\* the writer has ended its last line and the reader has read all of it
AllRead ==
    /\ Following
    /\ f_pos = Len(log_text)
    /\ AppendedText # ""
    /\ SubSeq(log_text, Len(log_text), Len(log_text)) = "\n"

\* C22: in follow mode every valid JSON line the writer appends is parsed as
\* exactly one record, in one write or in several with the reader polling in
\* between: once the reader has read all that was appended, the records it
\* parsed are the records of the lines appended, in order.
C22_EveryAppendedLineParsed ==
    (AllRead /\ Len(reads) <= MaxAppends + 1) =>
        RecordsOf(reads) = RecordsOf(py_splitlines(AppendedText))

----------------------------------------------------------------------------
\* the lines of the file before the call and after it
LinesBefore == py_splitlines(hargs.text)
LinesAfter == py_splitlines(disk_text)

\* the range the call is to remove: 1-indexed, inclusive, clamped to the file
RangeFirst == IF hargs.start < 1 THEN 1 ELSE hargs.start
RangeLast ==
    LET e == IF hargs.end = <<>> THEN hargs.start ELSE hargs.end[1]
    IN  IF e > Len(LinesBefore) THEN Len(LinesBefore) ELSE e

KeptLines ==
    LET keep == {i \in 1..Len(LinesBefore) : i < RangeFirst \/ i > RangeLast}
    IN  [k \in 1..Cardinality(keep) |-> LinesBefore[SortedSeq(keep)[k]]]

\* C23: delete_lines(path, start, end) removes exactly the lines RangeFirst to
\* RangeLast of the file and returns how many it removed, for every start and
\* end: the count is the number of lines before less the number after, it is
\* never negative, the file gains no line, and the lines outside the range are
\* kept in their order.
C23_DeleteLinesRemovesRange ==
    (helper = "delete_lines" /\ hpc = "returned") =>
        /\ LinesAfter = KeptLines
        /\ result = Len(LinesBefore) - Len(LinesAfter)
        /\ result >= 0
        /\ Len(LinesAfter) <= Len(LinesBefore)

====
